---- MODULE Spec2Model ----
(***************************************************************************)
(* A model of the Porter stemmer of src/src/main.rs: the PorterStemmer     *)
(* instance (buffer, k, k0, j), the stem() entry point and its five steps, *)
(* and the canonical ANSI C stemmer the file reproduces in its comments.   *)
(*                                                                         *)
(* Characters are one-character strings and words are sequences of them.   *)
(* Rust indices are 0-based: buffer[i] of the code is At(buffer, i) here.  *)
(*                                                                         *)
(* usize.  The cursors k, k0, j are usize, 64 bits wide.  A usize value v  *)
(* is held as the integer n with v = n mod 2^64 and |n| small: n >= 0 is   *)
(* the value n, and n < 0 is the wrapped value 2^64 + n (-1 is usize::MAX).*)
(* Addition and subtraction of such representatives are exact modulo 2^64; *)
(* comparisons are made on the unsigned values (ULt, ULe).  A build with   *)
(* overflow checks ("debug", the default of cargo build and cargo test)    *)
(* panics where the arithmetic overflows; a build without them ("release") *)
(* wraps.  Both are outcomes the build can produce, so the build is chosen *)
(* nondeterministically when the instance is created.                      *)
(***************************************************************************)
EXTENDS Integers, Sequences, FiniteSets

\* ------------------------------------------------------------------ bounds

\* Longest generated prefix put in front of a suffix of the tables.
MaxPrefixLen == 3

\* Calls of stem() made on one instance.
MaxCalls == 2

\* ------------------------------------------------------------- characters

LowerLetters ==
  << "a","b","c","d","e","f","g","h","i","j","k","l","m",
     "n","o","p","q","r","s","t","u","v","w","x","y","z" >>

UpperLetters ==
  << "A","B","C","D","E","F","G","H","I","J","K","L","M",
     "N","O","P","Q","R","S","T","U","V","W","X","Y","Z" >>

Range(f) == { f[x] : x \in DOMAIN f }

\* U+0130 (LATIN CAPITAL LETTER I WITH DOT ABOVE) and U+0307 (COMBINING DOT
\* ABOVE): the one character whose lower case is two characters.
IDotAbove == "U+0130"
CombiningDot == "U+0307"

LowerSet == Range(LowerLetters)
UpperSet == Range(UpperLetters)

IsAsciiLetter(c) == c \in LowerSet \/ c \in UpperSet

IsAsciiLetters(w) == \A i \in 1..Len(w) : IsAsciiLetter(w[i])

\* char::to_lowercase, as str::to_lowercase applies it to each character.
char_to_lowercase(c) ==
  IF c \in LowerSet THEN << c >>
  ELSE IF c \in UpperSet
  THEN << LowerLetters[CHOOSE n \in 1..26 : UpperLetters[n] = c] >>
  ELSE IF c = IDotAbove THEN << "i", CombiningDot >>
  ELSE << c >>

RECURSIVE to_lowercase(_)
to_lowercase(w) ==
  IF w = << >> THEN << >>
  ELSE char_to_lowercase(Head(w)) \o to_lowercase(Tail(w))

\* The UTF-8 width of a character, and str::len: the length in bytes.
utf8_width(c) == IF c \in {IDotAbove, CombiningDot} THEN 2 ELSE 1

RECURSIVE str_len(_)
str_len(w) == IF w = << >> THEN 0 ELSE utf8_width(Head(w)) + str_len(Tail(w))

\* ------------------------------------------------------------------ usize

ULt(a, b) == IF (a >= 0) = (b >= 0) THEN a < b ELSE b < 0
ULe(a, b) == a = b \/ ULt(a, b)

Debug == "debug"
Release == "release"
Builds == {Debug, Release}

\* a - b and a + b on usize: [panic, val].
usize_sub(build, a, b) ==
  IF build = Debug /\ ULt(a, b) THEN [panic |-> TRUE, val |-> 0]
  ELSE [panic |-> FALSE, val |-> a - b]

usize_add(build, a, b) ==
  IF build = Debug /\ (a < 0 \/ b < 0) /\ a + b >= 0 /\ ~(a < 0 /\ b < 0)
  THEN [panic |-> TRUE, val |-> 0]
  ELSE [panic |-> FALSE, val |-> a + b]

\* ------------------------------------------------- the PorterStemmer struct

\* buffer[i], and whether the index is inside the Vec.
At(b, i) == b[i + 1]
InBounds(b, i) == i >= 0 /\ i < Len(b)

\* Where the value of j comes from, kept beside the instance:
\*   age     "none" until the call has set j, "fresh" once ends_with has
\*           matched (or step5 has assigned j), "aged" once a later match
\*           attempt has failed;
\*   worst   the worst age at which the call has used j so far;
\*   matched the length of the suffix whose match set j (0 for step5's j = k);
\*   excess  the most by which a set_to replacement has been longer than
\*           that suffix.
NoBoundary == [age |-> "none", worst |-> "fresh", matched |-> 0, excess |-> 0]

\* An instance as a record; panicked is set once an operation has panicked.
Stemmer(build, buffer, k, k0, j) ==
  [build |-> build, buffer |-> buffer, k |-> k, k0 |-> k0, j |-> j,
   panicked |-> FALSE, boundary |-> NoBoundary]

\* A call begins; a match attempt fails; a match of n characters sets j;
\* step5 assigns j; j is used; set_to writes n characters after j.
Called(s) == [s EXCEPT !.boundary = NoBoundary]
Attempted(s) ==
  [s EXCEPT !.boundary.age = IF @ = "fresh" THEN "aged" ELSE @]
MatchedAt(s, n) == [s EXCEPT !.boundary.age = "fresh", !.boundary.matched = n]
Assigned(s) == MatchedAt(s, 0)
Worse(a, b) ==
  IF "none" \in {a, b} THEN "none"
  ELSE IF "aged" \in {a, b} THEN "aged" ELSE "fresh"
UseBoundary(s) == [s EXCEPT !.boundary.worst = Worse(@, s.boundary.age)]
Replaced(s, n) ==
  LET u == UseBoundary(s)
      over == n - u.boundary.matched
  IN  [u EXCEPT !.boundary.excess = IF over > @ THEN over ELSE @]

Panicked(s) == [s EXCEPT !.panicked = TRUE]

\* Results of the operations that return a value: [panic, val].
Value(v) == [panic |-> FALSE, val |-> v]
PanicBool == [panic |-> TRUE, val |-> FALSE]
PanicInt == [panic |-> TRUE, val |-> 0]

\* PorterStemmer::new
new(build) == Stemmer(build, << >>, 0, 0, 0)

\* is_consonant with 'y' taken as a consonant wherever it stands.
is_consonant_y_always(s, i) ==
  IF ~InBounds(s.buffer, i) THEN PanicBool
  ELSE Value(At(s.buffer, i) \notin {"a", "e", "i", "o", "u"})

\* PorterStemmer::is_consonant
RECURSIVE is_consonant(_, _)
is_consonant(s, i) ==
  IF ~InBounds(s.buffer, i) THEN PanicBool
  ELSE LET ch == At(s.buffer, i) IN
       IF ch \in {"a", "e", "i", "o", "u"} THEN Value(FALSE)
       ELSE IF ch = "y"
       THEN IF i = s.k0 THEN Value(TRUE)
            ELSE LET p == usize_sub(s.build, i, 1)
                     r == is_consonant(s, p.val)
                 IN  IF p.panic \/ r.panic THEN PanicBool ELSE Value(~r.val)
       ELSE Value(TRUE)

\* PorterStemmer::measure.  The three scanning loops of the code, each a
\* recursion over i; n is usize and i += 1 is checked like any addition.
RECURSIVE measure_vowels(_, _, _), measure_consonants(_, _, _)
measure_vowels(s, i, n) ==
  IF ULt(s.j, i) THEN Value(n)
  ELSE LET c == is_consonant(s, i)
           i1 == usize_add(s.build, i, 1)
           n1 == usize_add(s.build, n, 1)
       IN  IF c.panic \/ i1.panic THEN PanicInt
           ELSE IF c.val
                THEN IF n1.panic THEN PanicInt
                     ELSE measure_consonants(s, i1.val, n1.val)
                ELSE measure_vowels(s, i1.val, n)

measure_consonants(s, i, n) ==
  IF ULt(s.j, i) THEN Value(n)
  ELSE LET c == is_consonant(s, i)
           i1 == usize_add(s.build, i, 1)
       IN  IF c.panic \/ i1.panic THEN PanicInt
           ELSE IF ~c.val THEN measure_vowels(s, i1.val, n)
                ELSE measure_consonants(s, i1.val, n)

RECURSIVE measure_leading(_, _)
measure_leading(s, i) ==
  IF ULt(s.j, i) THEN Value(0)
  ELSE LET c == is_consonant(s, i)
           i1 == usize_add(s.build, i, 1)
       IN  IF c.panic \/ i1.panic THEN PanicInt
           ELSE IF ~c.val THEN measure_vowels(s, i1.val, 0)
                ELSE measure_leading(s, i1.val)

measure(s) == measure_leading(s, s.k0)

\* PorterStemmer::vowel_in_stem: (k0..=j).any(|i| !is_consonant(i)).
RECURSIVE vowel_scan(_, _)
vowel_scan(s, i) ==
  IF ULt(s.j, i) THEN Value(FALSE)
  ELSE LET c == is_consonant(s, i) IN
       IF c.panic THEN PanicBool
       ELSE IF ~c.val THEN Value(TRUE)
       ELSE vowel_scan(s, i + 1)

vowel_in_stem(s) == vowel_scan(s, s.k0)

\* PorterStemmer::double_consonant
double_consonant(s, jj) ==
  LET lo == usize_add(s.build, s.k0, 1)
      p == usize_sub(s.build, jj, 1)
  IN  IF lo.panic THEN PanicBool
      ELSE IF ULt(jj, lo.val) THEN Value(FALSE)
      ELSE IF ~InBounds(s.buffer, jj) \/ p.panic \/ ~InBounds(s.buffer, p.val)
           THEN PanicBool
      ELSE IF At(s.buffer, jj) # At(s.buffer, p.val) THEN Value(FALSE)
      ELSE is_consonant(s, jj)

\* PorterStemmer::cvc
cvc(s, i) ==
  LET lo == usize_add(s.build, s.k0, 2)
      c0 == is_consonant(s, i)
      p1 == usize_sub(s.build, i, 1)
      c1 == is_consonant(s, p1.val)
      p2 == usize_sub(s.build, i, 2)
      c2 == is_consonant(s, p2.val)
  IN  IF lo.panic THEN PanicBool
      ELSE IF ULt(i, lo.val) THEN Value(FALSE)
      ELSE IF c0.panic THEN PanicBool
      ELSE IF ~c0.val THEN Value(FALSE)
      ELSE IF p1.panic \/ c1.panic THEN PanicBool
      ELSE IF c1.val THEN Value(FALSE)
      ELSE IF p2.panic \/ c2.panic THEN PanicBool
      ELSE IF ~c2.val THEN Value(FALSE)
      ELSE IF ~InBounds(s.buffer, i) THEN PanicBool
      ELSE Value(At(s.buffer, i) \notin {"w", "x", "y"})

\* &buffer[lo..=hi]: the slice, which panics unless lo <= hi + 1 <= len.
SliceOk(b, lo, hi) == lo >= 0 /\ hi >= 0 /\ hi < Len(b) /\ lo <= hi + 1
Slice(b, lo, hi) == SubSeq(b, lo + 1, hi + 1)

\* The outcome of a match attempt: [ok, s], s the instance afterwards.
Matched(s) == [ok |-> TRUE, s |-> s]
NoMatch(s) == [ok |-> FALSE, s |-> s]

\* PorterStemmer::ends_with
ends_with(s, suffix) ==
  LET length == Len(suffix)
      w0 == usize_sub(s.build, s.k, s.k0)
      w1 == usize_add(s.build, w0.val, 1)
      l0 == usize_add(s.build, s.k, 1)
      l1 == usize_sub(s.build, l0.val, length)
      jn == usize_sub(s.build, s.k, length)
  IN  IF w0.panic \/ w1.panic THEN NoMatch(Panicked(s))
      ELSE IF ULt(w1.val, length) THEN NoMatch(Attempted(s))
      ELSE IF l0.panic \/ l1.panic \/ ~SliceOk(s.buffer, l1.val, s.k)
           THEN NoMatch(Panicked(s))
      ELSE IF Slice(s.buffer, l1.val, s.k) # suffix THEN NoMatch(Attempted(s))
      ELSE IF jn.panic THEN NoMatch(Panicked(s))
      ELSE Matched(MatchedAt([s EXCEPT !.j = jn.val], length))

\* PorterStemmer::set_to
set_to(s, str) ==
  LET length == Len(str)
      base == usize_add(s.build, s.j, 1)
      Idx(i) == usize_add(s.build, base.val, i)
      kn == usize_add(s.build, s.j, length)
      bad == \E i \in 0..(length - 1) :
               Idx(i).panic \/ ~InBounds(s.buffer, Idx(i).val)
  IN  IF length > 0 /\ (base.panic \/ bad) THEN Panicked(Replaced(s, length))
      ELSE IF kn.panic THEN Panicked(Replaced(s, length))
      ELSE [Replaced(s, length) EXCEPT
              !.buffer = [n \in 1..Len(s.buffer) |->
                            IF \E i \in 0..(length - 1) : Idx(i).val = n - 1
                            THEN str[(CHOOSE i \in 0..(length - 1) :
                                        Idx(i).val = n - 1) + 1]
                            ELSE s.buffer[n]],
              !.k = kn.val]

\* PorterStemmer::replace_suffix_if_stem_measured
replace_suffix_if_stem_measured(s, str) ==
  LET m == measure(s)
      u == UseBoundary(s)
  IN  IF m.panic THEN Panicked(u)
      ELSE IF m.val > 0 THEN set_to(u, str)
      ELSE u

\* ---------------------------------------------------------------- step 1

\* usize decrement and increment of k (k -= n, k += n).
k_sub(s, n) ==
  LET r == usize_sub(s.build, s.k, n) IN
  IF r.panic THEN Panicked(s) ELSE [s EXCEPT !.k = r.val]

k_add(s, n) ==
  LET r == usize_add(s.build, s.k, n) IN
  IF r.panic THEN Panicked(s) ELSE [s EXCEPT !.k = r.val]

\* step1ab, the plural part.
step1a(s) ==
  IF ~InBounds(s.buffer, s.k) THEN Panicked(s)
  ELSE IF At(s.buffer, s.k) # "s" THEN s
  ELSE LET sses == ends_with(s, <<"s","s","e","s">>)
           ies == ends_with(sses.s, <<"i","e","s">>)
           p == usize_sub(s.build, s.k, 1)
       IN  IF sses.s.panicked THEN sses.s
           ELSE IF sses.ok THEN k_sub(sses.s, 2)
           ELSE IF ies.s.panicked THEN ies.s
           ELSE IF ies.ok THEN set_to(ies.s, <<"i">>)
           ELSE IF p.panic \/ ~InBounds(s.buffer, p.val) THEN Panicked(ies.s)
           ELSE IF At(s.buffer, p.val) # "s" THEN k_sub(ies.s, 1)
           ELSE ies.s

\* The outcome of a part of a step that decides what runs next: [s, taken].
Branch(s, taken) == [s |-> s, taken |-> taken]

\* step1ab, the -eed / -ed / -ing part up to k = j; taken when the -ed or
\* -ing suffix was removed, so that the stem is tidied up next.
step1b_suffix(s) ==
  LET eed == ends_with(s, <<"e","e","d">>)
      m == measure(eed.s)
      st == UseBoundary(eed.s)
      ed == ends_with(eed.s, <<"e","d">>)
      ing == ends_with(ed.s, <<"i","n","g">>)
      hit == IF ed.ok THEN ed ELSE ing
      v == vowel_in_stem(hit.s)
      u == UseBoundary(hit.s)
  IN  IF eed.s.panicked THEN Branch(eed.s, FALSE)
      ELSE IF eed.ok
      THEN IF m.panic THEN Branch(Panicked(st), FALSE)
           ELSE IF m.val > 0 THEN Branch(k_sub(st, 1), FALSE)
           ELSE Branch(st, FALSE)
      ELSE IF ed.s.panicked THEN Branch(ed.s, FALSE)
      ELSE IF hit.s.panicked THEN Branch(hit.s, FALSE)
      ELSE IF ~hit.ok THEN Branch(hit.s, FALSE)
      ELSE IF v.panic THEN Branch(Panicked(u), FALSE)
      ELSE IF v.val THEN Branch([u EXCEPT !.k = u.j], TRUE)
      ELSE Branch(u, FALSE)

\* step1ab after k = j, up to the k -= 1 of the doubled-consonant branch;
\* taken when that branch was entered.
step1b_tidy(s) ==
  LET at == ends_with(s, <<"a","t">>)
      bl == ends_with(at.s, <<"b","l">>)
      iz == ends_with(bl.s, <<"i","z">>)
      dc == double_consonant(iz.s, iz.s.k)
      m == measure(iz.s)
      u == UseBoundary(iz.s)
      c == cvc(u, u.k)
  IN  IF at.s.panicked THEN Branch(at.s, FALSE)
      ELSE IF at.ok THEN Branch(set_to(at.s, <<"a","t","e">>), FALSE)
      ELSE IF bl.s.panicked THEN Branch(bl.s, FALSE)
      ELSE IF bl.ok THEN Branch(set_to(bl.s, <<"b","l","e">>), FALSE)
      ELSE IF iz.s.panicked THEN Branch(iz.s, FALSE)
      ELSE IF iz.ok THEN Branch(set_to(iz.s, <<"i","z","e">>), FALSE)
      ELSE IF dc.panic THEN Branch(Panicked(iz.s), FALSE)
      ELSE IF dc.val
      THEN LET d == k_sub(iz.s, 1) IN Branch(d, ~d.panicked)
      ELSE IF m.panic THEN Branch(Panicked(u), FALSE)
      ELSE IF m.val # 1 THEN Branch(u, FALSE)
      ELSE IF c.panic THEN Branch(Panicked(u), FALSE)
      ELSE IF c.val THEN Branch(set_to(u, <<"e">>), FALSE)
      ELSE Branch(u, FALSE)

\* step1ab, the rest of the doubled-consonant branch: l, s and z stay doubled.
step1b_undouble(s) ==
  IF ~InBounds(s.buffer, s.k) THEN Panicked(s)
  ELSE IF At(s.buffer, s.k) \in {"l", "s", "z"} THEN k_add(s, 1)
  ELSE s

\* step1ab, the whole -eed / -ed / -ing part.
step1b(s) ==
  LET b == step1b_suffix(s)
      c == step1b_tidy(b.s)
  IN  IF b.s.panicked \/ ~b.taken THEN b.s
      ELSE IF c.s.panicked \/ ~c.taken THEN c.s
      ELSE step1b_undouble(c.s)

\* PorterStemmer::step1ab
step1ab(s) ==
  LET a == step1a(s) IN
  IF a.panicked THEN a ELSE step1b(a)

\* step1c asking vowel_in_stem before ends_with("y").
step1c_vowel_first(s) ==
  LET v == vowel_in_stem(s)
      u == UseBoundary(s)
      y == ends_with(u, <<"y">>)
  IN  IF v.panic THEN Panicked(u)
      ELSE IF ~v.val THEN u
      ELSE IF y.s.panicked \/ ~y.ok THEN y.s
      ELSE IF ~InBounds(y.s.buffer, y.s.k) THEN Panicked(y.s)
      ELSE [y.s EXCEPT !.buffer = [y.s.buffer EXCEPT ![y.s.k + 1] = "i"]]

\* PorterStemmer::step1c
step1c(s) ==
  LET y == ends_with(s, <<"y">>)
      v == vowel_in_stem(y.s)
      u == UseBoundary(y.s)
  IN  IF y.s.panicked THEN y.s
      ELSE IF ~y.ok THEN y.s
      ELSE IF v.panic THEN Panicked(u)
      ELSE IF ~v.val THEN u
      ELSE IF ~InBounds(u.buffer, u.k) THEN Panicked(u)
      ELSE [u EXCEPT !.buffer = [u.buffer EXCEPT ![u.k + 1] = "i"]]

\* ----------------------------------------------------------- steps 2 and 3

\* An if / else-if chain over a table of << suffix, replacement >>: the
\* first suffix that matches gets replace_suffix_if_stem_measured, and no
\* later one is tried.
RECURSIVE replace_first(_, _)
replace_first(s, rules) ==
  IF rules = << >> THEN s
  ELSE LET e == ends_with(s, Head(rules)[1]) IN
       IF e.s.panicked THEN e.s
       ELSE IF e.ok THEN replace_suffix_if_stem_measured(e.s, Head(rules)[2])
       ELSE replace_first(e.s, Tail(rules))

Step2_a ==
  << << <<"a","t","i","o","n","a","l">>, <<"a","t","e">> >>,
     << <<"t","i","o","n","a","l">>, <<"t","i","o","n">> >> >>
Step2_c ==
  << << <<"e","n","c","i">>, <<"e","n","c","e">> >>,
     << <<"a","n","c","i">>, <<"a","n","c","e">> >> >>
Step2_e ==
  << << <<"i","z","e","r">>, <<"i","z","e">> >> >>
\* Step2_l with "bli" rewritten to "able".
Step2_l_able ==
  << << <<"b","l","i">>, <<"a","b","l","e">> >>,
     << <<"a","l","l","i">>, <<"a","l">> >>,
     << <<"e","n","t","l","i">>, <<"e","n","t">> >>,
     << <<"e","l","i">>, <<"e">> >>,
     << <<"o","u","s","l","i">>, <<"o","u","s">> >> >>
Step2_l ==
  << << <<"b","l","i">>, <<"b","l","e">> >>,
     << <<"a","l","l","i">>, <<"a","l">> >>,
     << <<"e","n","t","l","i">>, <<"e","n","t">> >>,
     << <<"e","l","i">>, <<"e">> >>,
     << <<"o","u","s","l","i">>, <<"o","u","s">> >> >>
Step2_o ==
  << << <<"i","z","a","t","i","o","n">>, <<"i","z","e">> >>,
     << <<"a","t","i","o","n">>, <<"a","t","e">> >>,
     << <<"a","t","o","r">>, <<"a","t","e">> >> >>
Step2_s ==
  << << <<"a","l","i","s","m">>, <<"a","l">> >>,
     << <<"i","v","e","n","e","s","s">>, <<"i","v","e">> >>,
     << <<"f","u","l","n","e","s","s">>, <<"f","u","l">> >>,
     << <<"o","u","s","n","e","s","s">>, <<"o","u","s">> >> >>
Step2_t ==
  << << <<"a","l","i","t","i">>, <<"a","l">> >>,
     << <<"i","v","i","t","i">>, <<"i","v","e">> >>,
     << <<"b","i","l","i","t","i">>, <<"b","l","e">> >> >>
Step2_g ==
  << << <<"l","o","g","i">>, <<"l","o","g">> >> >>

\* The arm of step2's match for the character before the last.
Step2Rules(ch) ==
  CASE ch = "a" -> Step2_a
    [] ch = "c" -> Step2_c
    [] ch = "e" -> Step2_e
    [] ch = "l" -> Step2_l
    [] ch = "o" -> Step2_o
    [] ch = "s" -> Step2_s
    [] ch = "t" -> Step2_t
    [] ch = "g" -> Step2_g
    [] OTHER -> << >>

\* PorterStemmer::step2
step2(s) ==
  LET p == usize_sub(s.build, s.k, 1) IN
  IF ULe(s.k, s.k0) THEN s
  ELSE IF p.panic \/ ~InBounds(s.buffer, p.val) THEN Panicked(s)
  ELSE replace_first(s, Step2Rules(At(s.buffer, p.val)))

Step3_e ==
  << << <<"i","c","a","t","e">>, <<"i","c">> >>,
     << <<"a","t","i","v","e">>, << >> >>,
     << <<"a","l","i","z","e">>, <<"a","l">> >> >>
Step3_i ==
  << << <<"i","c","i","t","i">>, <<"i","c">> >> >>
Step3_l ==
  << << <<"i","c","a","l">>, <<"i","c">> >>,
     << <<"f","u","l">>, << >> >> >>
Step3_s ==
  << << <<"n","e","s","s">>, << >> >> >>

\* The arm of step3's match for the last character.
Step3Rules(ch) ==
  CASE ch = "e" -> Step3_e
    [] ch = "i" -> Step3_i
    [] ch = "l" -> Step3_l
    [] ch = "s" -> Step3_s
    [] OTHER -> << >>

\* PorterStemmer::step3
step3(s) ==
  IF ~InBounds(s.buffer, s.k) THEN Panicked(s)
  ELSE replace_first(s, Step3Rules(At(s.buffer, s.k)))

\* ---------------------------------------------------------------- step 4

\* An if / else-if chain of ends_with over a list of suffixes: [ok, s] of
\* the first that matches.
RECURSIVE match_first(_, _)
match_first(s, suffixes) ==
  IF suffixes = << >> THEN NoMatch(s)
  ELSE LET e == ends_with(s, Head(suffixes)) IN
       IF e.s.panicked \/ e.ok THEN e
       ELSE match_first(e.s, Tail(suffixes))

Step4_a == << <<"a","l">> >>
Step4_c == << <<"a","n","c","e">>, <<"e","n","c","e">> >>
Step4_e == << <<"e","r">> >>
Step4_i == << <<"i","c">> >>
Step4_l == << <<"a","b","l","e">>, <<"i","b","l","e">> >>
Step4_n == << <<"a","n","t">>, <<"e","m","e","n","t">>, <<"m","e","n","t">>, <<"e","n","t">> >>
Step4_s == << <<"i","s","m">> >>
Step4_t == << <<"a","t","e">>, <<"i","t","i">> >>
Step4_u == << <<"o","u","s">> >>
Step4_v == << <<"i","v","e">> >>
Step4_z == << <<"i","z","e">> >>

\* The 'o' arm of step4: "ion" counts only after s or t, else "ou" is tried
\* (on the instance as the "ion" attempt left it).
step4_o(s) ==
  LET ion == ends_with(s, <<"i","o","n">>)
      j == ion.s.j
      u == UseBoundary(ion.s)
  IN  IF ion.s.panicked THEN ion
      ELSE IF ~ion.ok THEN ends_with(ion.s, <<"o","u">>)
      ELSE IF ULe(u.k0, j) /\ ~InBounds(u.buffer, j)
      THEN NoMatch(Panicked(u))
      ELSE IF ULe(u.k0, j) /\ At(u.buffer, j) \in {"s", "t"}
      THEN Matched(u)
      ELSE ends_with(u, <<"o","u">>)

\* The arm of step4's match for the character before the last.
step4_match(s, ch) ==
  CASE ch = "a" -> match_first(s, Step4_a)
    [] ch = "c" -> match_first(s, Step4_c)
    [] ch = "e" -> match_first(s, Step4_e)
    [] ch = "i" -> match_first(s, Step4_i)
    [] ch = "l" -> match_first(s, Step4_l)
    [] ch = "n" -> match_first(s, Step4_n)
    [] ch = "o" -> step4_o(s)
    [] ch = "s" -> match_first(s, Step4_s)
    [] ch = "t" -> match_first(s, Step4_t)
    [] ch = "u" -> match_first(s, Step4_u)
    [] ch = "v" -> match_first(s, Step4_v)
    [] ch = "z" -> match_first(s, Step4_z)
    [] OTHER -> NoMatch(s)

\* step4 without the return of the arms where no suffix matches: the
\* measure test runs on whatever j holds.
step4_no_return(s) ==
  LET p == usize_sub(s.build, s.k, 1)
      hit == step4_match(s, At(s.buffer, p.val))
      m == measure(hit.s)
      u == UseBoundary(hit.s)
  IN  IF ULe(s.k, s.k0) THEN s
      ELSE IF p.panic \/ ~InBounds(s.buffer, p.val) THEN Panicked(s)
      ELSE IF hit.s.panicked THEN hit.s
      ELSE IF m.panic THEN Panicked(u)
      ELSE IF m.val > 1 THEN [u EXCEPT !.k = u.j]
      ELSE u

\* PorterStemmer::step4
step4(s) ==
  LET p == usize_sub(s.build, s.k, 1)
      hit == step4_match(s, At(s.buffer, p.val))
      m == measure(hit.s)
      u == UseBoundary(hit.s)
  IN  IF ULe(s.k, s.k0) THEN s
      ELSE IF p.panic \/ ~InBounds(s.buffer, p.val) THEN Panicked(s)
      ELSE IF hit.s.panicked \/ ~hit.ok THEN hit.s
      ELSE IF m.panic THEN Panicked(u)
      ELSE IF m.val > 1 THEN [u EXCEPT !.k = u.j]
      ELSE u

\* ---------------------------------------------------------------- step 5

\* step5_e removing the final -e only for a measure above 1.
step5_e_above_one(s) ==
  LET t == Assigned([s EXCEPT !.j = s.k])
      a == measure(t)
      u == UseBoundary(t)
  IN  IF ~InBounds(t.buffer, t.k) THEN Panicked(t)
      ELSE IF At(t.buffer, t.k) # "e" THEN t
      ELSE IF a.panic THEN Panicked(u)
      ELSE IF a.val > 1 THEN k_sub(u, 1)
      ELSE u

\* step5 up to the removal of a final -e.
step5_e(s) ==
  LET t == Assigned([s EXCEPT !.j = s.k])
      a == measure(t)
      u == UseBoundary(t)
      p == usize_sub(t.build, t.k, 1)
      c == cvc(t, p.val)
  IN  IF ~InBounds(t.buffer, t.k) THEN Panicked(t)
      ELSE IF At(t.buffer, t.k) # "e" THEN t
      ELSE IF a.panic THEN Panicked(u)
      ELSE IF a.val > 1 THEN k_sub(u, 1)
      ELSE IF a.val # 1 THEN u
      ELSE IF p.panic \/ c.panic THEN Panicked(u)
      ELSE IF ~c.val THEN k_sub(u, 1)
      ELSE u

\* step5, the -ll to -l part.
step5_l(s) ==
  LET dc == double_consonant(s, s.k)
      m == measure(s)
      u == UseBoundary(s)
  IN  IF ~InBounds(s.buffer, s.k) THEN Panicked(s)
      ELSE IF At(s.buffer, s.k) # "l" THEN s
      ELSE IF dc.panic THEN Panicked(s)
      ELSE IF ~dc.val THEN s
      ELSE IF m.panic THEN Panicked(u)
      ELSE IF m.val > 1 THEN k_sub(u, 1)
      ELSE u

\* PorterStemmer::step5
step5(s) ==
  LET e == step5_e(s) IN
  IF e.panicked THEN e ELSE step5_l(e)

\* ------------------------------------------------------------------ stem

\* The outcome of a call: the instance afterwards and, unless it panicked,
\* the String returned.
Returned(s, str) == [s |-> s, result |-> str]

\* stem_load with the word appended to the buffer of the last call instead
\* of replacing it.
stem_load_keeps_buffer(s, word) ==
  LET buf == s.buffer \o to_lowercase(word)
      k == usize_sub(s.build, Len(buf), 1)
      c == Called(s)
      t == [c EXCEPT !.buffer = buf, !.k = k.val, !.k0 = 0]
      lim == usize_add(t.build, t.k0, 1)
  IN  IF word = << >> THEN Branch(c, FALSE)
      ELSE IF k.panic \/ lim.panic
      THEN Branch(Panicked([c EXCEPT !.buffer = buf]), FALSE)
      ELSE Branch(t, ~ULe(t.k, lim.val))

\* stem_load with the early return taken for k <= k0 only.
stem_load_one_letter(s, word) ==
  LET buf == to_lowercase(word)
      k == usize_sub(s.build, Len(buf), 1)
      c == Called(s)
      t == [c EXCEPT !.buffer = buf, !.k = k.val, !.k0 = 0]
  IN  IF word = << >> THEN Branch(c, FALSE)
      ELSE IF k.panic
      THEN Branch(Panicked([c EXCEPT !.buffer = buf]), FALSE)
      ELSE Branch(t, ~ULe(t.k, t.k0))

\* stem up to its first return or to the call of step1ab; taken when the
\* call goes on to the steps.
stem_load(s, word) ==
  LET buf == to_lowercase(word)
      k == usize_sub(s.build, Len(buf), 1)
      c == Called(s)
      t == [c EXCEPT !.buffer = buf, !.k = k.val, !.k0 = 0]
      lim == usize_add(t.build, t.k0, 1)
  IN  IF word = << >> THEN Branch(c, FALSE)
      ELSE IF k.panic \/ lim.panic
      THEN Branch(Panicked([c EXCEPT !.buffer = buf]), FALSE)
      ELSE Branch(t, ~ULe(t.k, lim.val))

\* The String stem returns when stem_load did not go on to the steps.
stem_early(s, word) == IF word = << >> THEN << >> ELSE s.buffer

\* stem's last line: buffer[0..=k] collected into a String.
stem_return(s) ==
  IF ~SliceOk(s.buffer, 0, s.k) THEN Returned(Panicked(s), << >>)
  ELSE Returned(s, Slice(s.buffer, 0, s.k))

\* The steps stem runs after step1ab when k > k0.
steps_1c_to_5(s) ==
  LET c == step1c(s)
      s2 == step2(c)
      s3 == step3(s2)
      s4 == step4(s3)
  IN  IF c.panicked THEN c
      ELSE IF s2.panicked THEN s2
      ELSE IF s3.panicked THEN s3
      ELSE IF s4.panicked THEN s4
      ELSE step5(s4)

\* PorterStemmer::stem
stem(s, word) ==
  LET l == stem_load(s, word)
      a == step1ab(l.s)
      r == IF ULt(a.k0, a.k) THEN steps_1c_to_5(a) ELSE a
  IN  IF l.s.panicked THEN Returned(l.s, << >>)
      ELSE IF ~l.taken THEN Returned(l.s, stem_early(l.s, word))
      ELSE IF a.panicked THEN Returned(a, << >>)
      ELSE IF r.panicked THEN Returned(r, << >>)
      ELSE stem_return(r)

\* ------------------------------------------- the ANSI C reference stemmer
\*
\* The canonical C version reproduced in the comments of main.rs.  Its
\* statics b, k, k0, j are a record; k, k0, j are (signed) int, so j = -1
\* after a suffix that is the whole word is an ordinary value.  b[i] is
\* c_at(c, i).

CStemmer(b, k, k0, j) == [b |-> b, k |-> k, k0 |-> k0, j |-> j]

c_at(c, i) == c.b[i + 1]

\* cons(i)
RECURSIVE c_cons(_, _)
c_cons(c, i) ==
  LET ch == c_at(c, i) IN
  IF ch \in {"a", "e", "i", "o", "u"} THEN FALSE
  ELSE IF ch = "y" THEN (IF i = c.k0 THEN TRUE ELSE ~c_cons(c, i - 1))
  ELSE TRUE

\* m(): the first loop, then the two inner loops of the second.
RECURSIVE c_m_v(_, _, _), c_m_c(_, _, _)
c_m_v(c, i, n) ==
  IF i > c.j THEN n
  ELSE IF c_cons(c, i) THEN c_m_c(c, i + 1, n + 1)
  ELSE c_m_v(c, i + 1, n)

c_m_c(c, i, n) ==
  IF i > c.j THEN n
  ELSE IF ~c_cons(c, i) THEN c_m_v(c, i + 1, n)
  ELSE c_m_c(c, i + 1, n)

RECURSIVE c_m_first(_, _)
c_m_first(c, i) ==
  IF i > c.j THEN 0
  ELSE IF ~c_cons(c, i) THEN c_m_v(c, i + 1, 0)
  ELSE c_m_first(c, i + 1)

c_m(c) == c_m_first(c, c.k0)

\* vowelinstem()
c_vowelinstem(c) == \E i \in c.k0..c.j : ~c_cons(c, i)

\* doublec(j)
c_doublec(c, jj) ==
  IF jj < c.k0 + 1 THEN FALSE
  ELSE IF c_at(c, jj) # c_at(c, jj - 1) THEN FALSE
  ELSE c_cons(c, jj)

\* cvc(i)
c_cvc(c, i) ==
  IF i < c.k0 + 2 \/ ~c_cons(c, i) \/ c_cons(c, i - 1) \/ ~c_cons(c, i - 2)
  THEN FALSE
  ELSE c_at(c, i) \notin {"w", "x", "y"}

\* ends(s): [ok, c]; s is the suffix without its length byte.
c_ends(c, s) ==
  LET length == Len(s) IN
  IF s[length] # c_at(c, c.k) THEN [ok |-> FALSE, c |-> c]
  ELSE IF length > c.k - c.k0 + 1 THEN [ok |-> FALSE, c |-> c]
  ELSE IF SubSeq(c.b, c.k - length + 2, c.k + 1) # s
       THEN [ok |-> FALSE, c |-> c]
  ELSE [ok |-> TRUE, c |-> [c EXCEPT !.j = c.k - length]]

\* setto(s)
c_setto(c, s) ==
  LET length == Len(s) IN
  [c EXCEPT
     !.b = [n \in 1..Len(c.b) |->
              IF n - 1 > c.j /\ n - 1 <= c.j + length
              THEN s[n - 1 - c.j] ELSE c.b[n]],
     !.k = c.j + length]

\* r(s)
c_r(c, s) == IF c_m(c) > 0 THEN c_setto(c, s) ELSE c

\* step1ab()
c_step1ab(c) ==
  LET sses == c_ends(c, <<"s","s","e","s">>)
      ies == c_ends(c, <<"i","e","s">>)
      c1 == IF c_at(c, c.k) # "s" THEN c
            ELSE IF sses.ok THEN [sses.c EXCEPT !.k = sses.c.k - 2]
            ELSE IF ies.ok THEN c_setto(ies.c, <<"i">>)
            ELSE IF c_at(c, c.k - 1) # "s" THEN [c EXCEPT !.k = c.k - 1]
            ELSE c
      eed == c_ends(c1, <<"e","e","d">>)
      ed == c_ends(c1, <<"e","d">>)
      ing == c_ends(c1, <<"i","n","g">>)
      hit == IF ed.ok THEN ed ELSE ing
      c2 == [hit.c EXCEPT !.k = hit.c.j]
      at == c_ends(c2, <<"a","t">>)
      bl == c_ends(c2, <<"b","l">>)
      iz == c_ends(c2, <<"i","z">>)
      c3 == [c2 EXCEPT !.k = c2.k - 1]
  IN  IF eed.ok
      THEN (IF c_m(eed.c) > 0 THEN [eed.c EXCEPT !.k = eed.c.k - 1] ELSE eed.c)
      ELSE IF hit.ok /\ c_vowelinstem(hit.c)
      THEN IF at.ok THEN c_setto(at.c, <<"a","t","e">>)
           ELSE IF bl.ok THEN c_setto(bl.c, <<"b","l","e">>)
           ELSE IF iz.ok THEN c_setto(iz.c, <<"i","z","e">>)
           ELSE IF c_doublec(c2, c2.k)
           THEN (IF c_at(c3, c3.k) \in {"l", "s", "z"}
                 THEN [c3 EXCEPT !.k = c3.k + 1] ELSE c3)
           ELSE IF c_m(c2) = 1 /\ c_cvc(c2, c2.k)
           THEN c_setto(c2, <<"e">>)
           ELSE c2
      ELSE hit.c

\* step1c()
c_step1c(c) ==
  LET y == c_ends(c, <<"y">>) IN
  IF y.ok /\ c_vowelinstem(y.c)
  THEN [y.c EXCEPT !.b = [y.c.b EXCEPT ![y.c.k + 1] = "i"]]
  ELSE y.c

\* A case of step2 or step3: the first ends() that holds gets r() and
\* breaks.
RECURSIVE c_case(_, _)
c_case(c, rules) ==
  IF rules = << >> THEN c
  ELSE LET e == c_ends(c, Head(rules)[1]) IN
       IF e.ok THEN c_r(e.c, Head(rules)[2]) ELSE c_case(c, Tail(rules))

C_step2_a ==
  << << <<"a","t","i","o","n","a","l">>, <<"a","t","e">> >>,
     << <<"t","i","o","n","a","l">>, <<"t","i","o","n">> >> >>
C_step2_c ==
  << << <<"e","n","c","i">>, <<"e","n","c","e">> >>,
     << <<"a","n","c","i">>, <<"a","n","c","e">> >> >>
C_step2_e ==
  << << <<"i","z","e","r">>, <<"i","z","e">> >> >>
C_step2_l ==
  << << <<"b","l","i">>, <<"b","l","e">> >>,
     << <<"a","l","l","i">>, <<"a","l">> >>,
     << <<"e","n","t","l","i">>, <<"e","n","t">> >>,
     << <<"e","l","i">>, <<"e">> >>,
     << <<"o","u","s","l","i">>, <<"o","u","s">> >> >>
C_step2_o ==
  << << <<"i","z","a","t","i","o","n">>, <<"i","z","e">> >>,
     << <<"a","t","i","o","n">>, <<"a","t","e">> >>,
     << <<"a","t","o","r">>, <<"a","t","e">> >> >>
C_step2_s ==
  << << <<"a","l","i","s","m">>, <<"a","l">> >>,
     << <<"i","v","e","n","e","s","s">>, <<"i","v","e">> >>,
     << <<"f","u","l","n","e","s","s">>, <<"f","u","l">> >>,
     << <<"o","u","s","n","e","s","s">>, <<"o","u","s">> >> >>
C_step2_t ==
  << << <<"a","l","i","t","i">>, <<"a","l">> >>,
     << <<"i","v","i","t","i">>, <<"i","v","e">> >>,
     << <<"b","i","l","i","t","i">>, <<"b","l","e">> >> >>
C_step2_g ==
  << << <<"l","o","g","i">>, <<"l","o","g">> >> >>

\* step2()
c_step2(c) ==
  LET ch == c_at(c, c.k - 1) IN
  CASE ch = "a" -> c_case(c, C_step2_a)
    [] ch = "c" -> c_case(c, C_step2_c)
    [] ch = "e" -> c_case(c, C_step2_e)
    [] ch = "l" -> c_case(c, C_step2_l)
    [] ch = "o" -> c_case(c, C_step2_o)
    [] ch = "s" -> c_case(c, C_step2_s)
    [] ch = "t" -> c_case(c, C_step2_t)
    [] ch = "g" -> c_case(c, C_step2_g)
    [] OTHER -> c

C_step3_e ==
  << << <<"i","c","a","t","e">>, <<"i","c">> >>,
     << <<"a","t","i","v","e">>, << >> >>,
     << <<"a","l","i","z","e">>, <<"a","l">> >> >>
C_step3_i ==
  << << <<"i","c","i","t","i">>, <<"i","c">> >> >>
C_step3_l ==
  << << <<"i","c","a","l">>, <<"i","c">> >>,
     << <<"f","u","l">>, << >> >> >>
C_step3_s ==
  << << <<"n","e","s","s">>, << >> >> >>

\* step3()
c_step3(c) ==
  LET ch == c_at(c, c.k) IN
  CASE ch = "e" -> c_case(c, C_step3_e)
    [] ch = "i" -> c_case(c, C_step3_i)
    [] ch = "l" -> c_case(c, C_step3_l)
    [] ch = "s" -> c_case(c, C_step3_s)
    [] OTHER -> c

\* A case of step4: [ok, c] of the first ends() that holds (break), not ok
\* when none does (return).
RECURSIVE c_any(_, _)
c_any(c, suffixes) ==
  IF suffixes = << >> THEN [ok |-> FALSE, c |-> c]
  ELSE LET e == c_ends(c, Head(suffixes)) IN
       IF e.ok THEN e ELSE c_any(c, Tail(suffixes))

C_step4_a == << <<"a","l">> >>
C_step4_c == << <<"a","n","c","e">>, <<"e","n","c","e">> >>
C_step4_e == << <<"e","r">> >>
C_step4_i == << <<"i","c">> >>
C_step4_l == << <<"a","b","l","e">>, <<"i","b","l","e">> >>
C_step4_n == << <<"a","n","t">>, <<"e","m","e","n","t">>, <<"m","e","n","t">>, <<"e","n","t">> >>
C_step4_s == << <<"i","s","m">> >>
C_step4_t == << <<"a","t","e">>, <<"i","t","i">> >>
C_step4_u == << <<"o","u","s">> >>
C_step4_v == << <<"i","v","e">> >>
C_step4_z == << <<"i","z","e">> >>

\* step4(), case 'o'
c_step4_o(c) ==
  LET ion == c_ends(c, <<"i","o","n">>) IN
  IF ion.ok /\ ion.c.j >= ion.c.k0 /\ c_at(ion.c, ion.c.j) \in {"s", "t"}
  THEN ion
  ELSE c_ends(ion.c, <<"o","u">>)

\* step4()
c_step4(c) ==
  LET ch == c_at(c, c.k - 1)
      hit == CASE ch = "a" -> c_any(c, C_step4_a)
               [] ch = "c" -> c_any(c, C_step4_c)
               [] ch = "e" -> c_any(c, C_step4_e)
               [] ch = "i" -> c_any(c, C_step4_i)
               [] ch = "l" -> c_any(c, C_step4_l)
               [] ch = "n" -> c_any(c, C_step4_n)
               [] ch = "o" -> c_step4_o(c)
               [] ch = "s" -> c_any(c, C_step4_s)
               [] ch = "t" -> c_any(c, C_step4_t)
               [] ch = "u" -> c_any(c, C_step4_u)
               [] ch = "v" -> c_any(c, C_step4_v)
               [] ch = "z" -> c_any(c, C_step4_z)
               [] OTHER -> [ok |-> FALSE, c |-> c]
  IN  IF hit.ok /\ c_m(hit.c) > 1 THEN [hit.c EXCEPT !.k = hit.c.j]
      ELSE hit.c

\* step5()
c_step5(c) ==
  LET c1 == [c EXCEPT !.j = c.k]
      a == c_m(c1)
      c2 == IF c_at(c1, c1.k) = "e"
               /\ (a > 1 \/ (a = 1 /\ ~c_cvc(c1, c1.k - 1)))
            THEN [c1 EXCEPT !.k = c1.k - 1] ELSE c1
  IN  IF c_at(c2, c2.k) = "l" /\ c_doublec(c2, c2.k) /\ c_m(c2) > 1
      THEN [c2 EXCEPT !.k = c2.k - 1]
      ELSE c2

\* stem(p, i, j): the statics after the call (k is the value returned);
\* jj is the value j had before the call.
c_stem(p, i, last, jj) ==
  LET c == CStemmer(p, last, i, jj)
      c1 == c_step1ab(c)
  IN  IF c.k <= c.k0 + 1 THEN c
      ELSE IF c1.k > c1.k0
      THEN c_step5(c_step4(c_step3(c_step2(c_step1c(c1)))))
      ELSE c1

\* The word stemfile prints for a run of lower-case letters w: the buffer
\* after stem(w, 0, len - 1), cut after the index stem returns.
c_stemmed(w) ==
  LET c == c_stem(w, 0, Len(w) - 1, 0) IN SubSeq(c.b, 1, c.k + 1)

\* ---------------------------------------------------------------- inputs

\* Letters of the generated prefixes: a vowel, a consonant, and y.
PrefixLetters == {"a", "t", "y"}

RECURSIVE Strings(_)
Strings(n) ==
  IF n = 0 THEN { << >> }
  ELSE { Append(p, c) : p \in Strings(n - 1), c \in PrefixLetters }

\* Stems of measure two, the shortest that step 4 truncates (main.rs:836).
MeasuredStems ==
  { <<"a","t","a","t">>, <<"a","y","a","y">>, <<"a","t","a","y">>,
    <<"a","y","a","t">>, <<"t","a","t","a","t">> }

Prefixes == UNION { Strings(n) : n \in 0..MaxPrefixLen } \cup MeasuredStems

\* Every suffix the steps look for.
TableSuffixes ==
  UNION { { rules[n][1] : n \in DOMAIN rules } :
          rules \in {Step2_a, Step2_c, Step2_e, Step2_l, Step2_o, Step2_s,
                     Step2_t, Step2_g, Step3_e, Step3_i, Step3_l, Step3_s} }
  \cup UNION { Range(l) : l \in {Step4_a, Step4_c, Step4_e, Step4_i, Step4_l,
                                 Step4_n, Step4_s, Step4_t, Step4_u, Step4_v,
                                 Step4_z} }

OtherSuffixes ==
  { << >>, <<"s">>, <<"s","s">>, <<"s","s","e","s">>,
    <<"i","e","s">>, <<"e","e","d">>, <<"e","d">>, <<"i","n","g">>,
    <<"a","t","e","d">>, <<"b","l","i","n","g">>, <<"i","z","e","d">>, <<"t","t","e","d">>,
    <<"l","l","i","n","g">>, <<"s","s","e","d">>, <<"y">>, <<"e">>,
    <<"l","l">>, <<"l","e">>, <<"i","o","n">>, <<"s","i","o","n">>,
    <<"t","i","o","n">>, <<"o","u">>, <<"a","b","l","e","s">>, <<"e","m","e","n","t","s">> }

Suffixes == TableSuffixes \cup OtherSuffixes

GeneratedWords == { p \o x : p \in Prefixes, x \in Suffixes }

\* The words of the file's tests, doc comments and main.
LiteralWords ==
  { <<"c","a","r","e","s","s","e","s">>, <<"p","o","n","i","e","s">>, <<"t","i","e","s">>,
    <<"c","a","r","e","s","s">>, <<"c","a","t","s">>, <<"t","r","o","u","b","l","e","d">>,
    <<"t","r","o","u","b","l","e","s">>, <<"t","r","o","u","b","l","i","n","g">>, <<"c","a","p","a","b","i","l","i","t","y">>,
    <<"c","a","p","a","b","i","l","i","t","i","e","s">>, <<"m","a","r","k","e","t","i","n","g">>, <<"r","u","n","n","i","n","g">>,
    <<"a","g","r","e","e","d">>, <<"f","e","e","d">>, <<"p","l","a","s","t","e","r","e","d">>,
    <<"m","o","t","o","r","i","n","g">>, <<"r","e","l","a","t","i","o","n","a","l">>, <<"c","o","n","d","i","t","i","o","n","a","l">>,
    <<"v","a","l","e","n","c","i">>, <<"t","r","i","p","l","i","c","a","t","e">>, <<"f","o","r","m","a","t","i","v","e">>,
    <<"f","o","r","m","a","l","i","z","e">>, <<"r","e","v","i","v","a","l">>, <<"a","l","l","o","w","a","n","c","e">>,
    <<"i","n","f","e","r","e","n","c","e">>, <<"p","r","o","b","a","t","e">>, <<"r","a","t","e">>,
    <<"c","o","n","t","r","o","l","l">>, <<"h","a","p","p","y">>, <<"s","k","y">> }

\* Words with upper-case letters, and words that are not ASCII.
CasedWords ==
  { <<"A">>, <<"A","T">>, <<"C","a","T","S">>, <<"I","N","G">>,
    <<"A","g","r","e","e","D">>,
    <<IDotAbove>>, <<IDotAbove, "s">>, <<"t", IDotAbove, "e", "d">> }

Words == GeneratedWords \cup LiteralWords \cup CasedWords

\* The words given to the later calls on an instance.
LaterWords ==
  { << >>, <<"a">>, <<"a","t">>, <<"s","k","y">>,
    <<"c","a","t","s">>, <<"f","e","e","d">>, <<"a","g","r","e","e","d">>, <<"i","n","g">>,
    <<"a","t","i","o","n","a","l">>, <<"t","a","t","t","i","n","g">>, <<"a","t","a","t","e","m","e","n","t">>, <<"y","y","y">>,
    <<"a","t","a","t","a","t","a">> }

\* --------------------------------------------------------- the state machine

VARIABLES
  build,    \* how the program was built: Debug or Release
  buffer,   \* PorterStemmer.buffer
  k,        \* PorterStemmer.k
  k0,       \* PorterStemmer.k0
  j,        \* PorterStemmer.j
  pc,       \* where the current call of stem is
  word,     \* the argument of the current (or last) call of stem
  result,   \* the String the call returned (empty until it returns)
  calls,    \* calls of stem made on the instance
  entry,    \* k on entry to the step the call is in
  boundary  \* where the current call's j comes from (see NoBoundary)

vars ==
  << build, buffer, k, k0, j, pc, word, result, calls, entry, boundary >>

Idle == "idle"
PanickedPc == "panicked"
StepPcs ==
  {"step1a", "step1b", "step1b_tidy", "step1b_undouble", "step1c", "step2",
   "step3", "step4", "step5", "step5_l", "return"}

\* The instance the variables hold.
Self ==
  [build |-> build, buffer |-> buffer, k |-> k, k0 |-> k0, j |-> j,
   panicked |-> FALSE, boundary |-> boundary]

\* The instance becomes s and the call moves to pc next (or has panicked).
Goto(s, next) ==
  /\ buffer' = s.buffer
  /\ k' = s.k
  /\ k0' = s.k0
  /\ j' = s.j
  /\ boundary' = s.boundary
  /\ pc' = IF s.panicked THEN PanickedPc ELSE next
  /\ UNCHANGED << build, word, calls >>

\* Within a step, or on to the first position of the next step.
Within(s, next) == Goto(s, next) /\ UNCHANGED << result, entry >>
Enter(s, next) == Goto(s, next) /\ entry' = s.k /\ UNCHANGED result

\* stem's test after step1ab: steps 1c to 5 run only when k > k0.
AfterStep1(s) == IF ULt(s.k0, s.k) THEN "step1c" ELSE "return"

Init ==
  /\ build \in Builds
  /\ buffer = << >>
  /\ k = 0
  /\ k0 = 0
  /\ j = 0
  /\ pc = Idle
  /\ word = << >>
  /\ result = << >>
  /\ calls = 0
  /\ entry = 0
  /\ boundary = NoBoundary

\* A call of stem(w), up to its early return or to the call of step1ab.
Stem ==
  /\ pc = Idle
  /\ calls < MaxCalls
  /\ \E w \in (IF calls = 0 THEN Words ELSE LaterWords) :
       LET l == stem_load(Self, w) IN
       /\ buffer' = l.s.buffer
       /\ k' = l.s.k
       /\ k0' = l.s.k0
       /\ j' = l.s.j
       /\ boundary' = l.s.boundary
       /\ word' = w
       /\ calls' = calls + 1
       /\ pc' = IF l.s.panicked THEN PanickedPc
                ELSE IF l.taken THEN "step1a" ELSE Idle
       /\ result' = IF l.s.panicked \/ l.taken THEN << >>
                    ELSE stem_early(l.s, w)
       /\ entry' = l.s.k
       /\ UNCHANGED build

Step1a ==
  /\ pc = "step1a"
  /\ Within(step1a(Self), "step1b")

Step1bSuffix ==
  /\ pc = "step1b"
  /\ LET b == step1b_suffix(Self) IN
     IF b.taken THEN Within(b.s, "step1b_tidy")
     ELSE Enter(b.s, AfterStep1(b.s))

Step1bTidy ==
  /\ pc = "step1b_tidy"
  /\ LET b == step1b_tidy(Self) IN
     IF b.taken THEN Within(b.s, "step1b_undouble")
     ELSE Enter(b.s, AfterStep1(b.s))

Step1bUndouble ==
  /\ pc = "step1b_undouble"
  /\ LET s == step1b_undouble(Self) IN Enter(s, AfterStep1(s))

Step1c ==
  /\ pc = "step1c"
  /\ Enter(step1c(Self), "step2")

Step2 ==
  /\ pc = "step2"
  /\ Enter(step2(Self), "step3")

Step3 ==
  /\ pc = "step3"
  /\ Enter(step3(Self), "step4")

Step4 ==
  /\ pc = "step4"
  /\ Enter(step4(Self), "step5")

Step5E ==
  /\ pc = "step5"
  /\ Within(step5_e(Self), "step5_l")

Step5L ==
  /\ pc = "step5_l"
  /\ Enter(step5_l(Self), "return")

\* stem's last line: the String is returned and the instance is idle again.
Return ==
  /\ pc = "return"
  /\ LET r == stem_return(Self) IN
     /\ Goto(r.s, Idle)
     /\ result' = r.result
     /\ UNCHANGED entry

Next ==
  \/ Stem
  \/ Step1a
  \/ Step1bSuffix
  \/ Step1bTidy
  \/ Step1bUndouble
  \/ Step1c
  \/ Step2
  \/ Step3
  \/ Step4
  \/ Step5E
  \/ Step5L
  \/ Return

Spec == Init /\ [][Next]_vars

\* A call that has started runs to its end: stem is synchronous, and nothing
\* but the call itself decides whether its next step is taken.
Run ==
  \/ Step1a
  \/ Step1bSuffix
  \/ Step1bTidy
  \/ Step1bUndouble
  \/ Step1c
  \/ Step2
  \/ Step3
  \/ Step4
  \/ Step5E
  \/ Step5L
  \/ Return

FairSpec == Spec /\ WF_vars(Run)

\* ------------------------------------------------------------------ claims

\* A call of stem has returned / is inside the steps.
HasReturned == pc = Idle /\ calls > 0
InCall == pc \in StepPcs

IsLowerWord(w) == \A i \in 1..Len(w) : w[i] \in LowerSet
IsAscii(w) == \A i \in 1..Len(w) : utf8_width(w[i]) = 1

\* The word the instance holds: buffer[0..=k].
Current == SubSeq(buffer, 1, k + 1)

\* C1: for every non-empty word of ASCII letters, stem completes and returns
\* a string: the call never panics (no arithmetic overflow, no index outside
\* the buffer) and the cursors k and j never wrap below 0.
C1_NoPanicOnLetters ==
  (calls > 0 /\ word # << >> /\ IsAsciiLetters(word))
    => (pc # PanickedPc /\ k >= 0 /\ j >= 0)

\* C2: for every input word, the string stem returns is no longer than the
\* word (lengths as str::len gives them).
C2_NeverLonger ==
  HasReturned => str_len(result) <= str_len(word)

\* C2, amended: for every input word of ASCII characters, the string stem
\* returns is no longer than the word.
C2_NeverLongerAscii ==
  (HasReturned /\ IsAscii(word)) => str_len(result) <= str_len(word)

C2_Witness ==
  /\ HasReturned
  /\ IsAscii(word)
  /\ Len(word) >= 3
  /\ str_len(result) < str_len(word)

\* C3: for every word of length 0, 1 or 2 (in characters), stem returns the
\* word itself, lower-cased, and the call never enters any of the steps; the
\* empty word returns the empty string.
C3_ShortWords ==
  (calls > 0 /\ Len(word) <= 2)
    => (pc = Idle /\ result = to_lowercase(word))

\* C3, amended: for every word of ASCII characters of length 0, 1 or 2, stem
\* returns the word itself, lower-cased, and the call never enters any of the
\* steps; the empty word returns the empty string.
C3_ShortWordsUnchanged ==
  (calls > 0 /\ IsAscii(word) /\ Len(word) <= 2)
    => (pc = Idle /\ result = to_lowercase(word))

C3_Witness ==
  /\ HasReturned
  /\ IsAscii(word)
  /\ Len(word) = 2
  /\ word # to_lowercase(word)
  /\ result = to_lowercase(word)

Agreed == <<"a","g","r","e","e","d">>

\* C4: stem("agreed") == "agree".
C4_AgreedGivesAgree ==
  (HasReturned /\ word = Agreed) => result = <<"a","g","r","e","e">>

\* C4, amended: stem("agreed") == "agre" (step 1 leaves "agree", and step 5
\* removes the final e).
C4_AgreedGivesAgre ==
  (HasReturned /\ word = Agreed) => result = <<"a","g","r","e">>

C4_Witness == HasReturned /\ word = Agreed /\ result # << >>

\* C5: whatever earlier calls left in buffer, k and j, a call of stem on a
\* used instance ends as the same call on a freshly created instance does:
\* with the same string, or with a panic.
C5_SameAsFresh ==
  LET fresh == stem(new(build), word) IN
  /\ HasReturned => (~fresh.s.panicked /\ result = fresh.result)
  /\ pc = PanickedPc => fresh.s.panicked

C5_Witness ==
  /\ HasReturned
  /\ calls = 2
  /\ Len(word) >= 3
  /\ result # word

\* The vocabulary of the claims about step 1, on plain words.
EndsIn(w, x) ==
  Len(w) >= Len(x) /\ SubSeq(w, Len(w) - Len(x) + 1, Len(w)) = x
DropLast(w, n) == SubSeq(w, 1, Len(w) - n)
LastOf(w) == w[Len(w)]

\* measure(), vowel_in_stem(), double_consonant(end) and cvc(end) of a whole
\* word; the empty word has measure 0 and no vowel.
Whole(w) == Stemmer(Release, w, Len(w) - 1, 0, Len(w) - 1)
MeasureOf(w) == IF w = << >> THEN 0 ELSE measure(Whole(w)).val
HasVowel(w) == w # << >> /\ vowel_in_stem(Whole(w)).val
EndsDoubled(w) == w # << >> /\ double_consonant(Whole(w), Len(w) - 1).val
EndsCvc(w) == w # << >> /\ cvc(Whole(w), Len(w) - 1).val

\* What the claim says step 1a makes of a word of three letters or more.
Step1aClaimed(w) ==
  IF LastOf(w) # "s" THEN w
  ELSE IF EndsIn(w, <<"s","s","e","s">>) THEN DropLast(w, 2)
  ELSE IF EndsIn(w, <<"i","e","s">>) THEN Append(DropLast(w, 3), "i")
  ELSE IF w[Len(w) - 1] # "s" THEN DropLast(w, 1)
  ELSE w

\* C6: step 1a, for every word of length >= 3: -sses loses its last two
\* characters, else -ies becomes -i, else a final s not preceded by s is
\* removed, else the word is unchanged; a word not ending in s is unchanged.
C6_Step1aPlurals ==
  [][pc = "step1a" => (pc' = "step1b" /\ Current' = Step1aClaimed(Current))]_vars

\* The stem the claim means for a word ending in -ed or -ing.
EdIngStem(w) ==
  IF EndsIn(w, <<"e","d">>) THEN DropLast(w, 2) ELSE DropLast(w, 3)

\* The words the claim about step 1b covers.
Step1bCovered(w) ==
  \/ EndsIn(w, <<"e","e","d">>)
  \/ /\ EndsIn(w, <<"e","d">>) \/ EndsIn(w, <<"i","n","g">>)
     /\ HasVowel(EdIngStem(w))

\* What the claim says step 1b makes of such a word.
Step1bClaimed(w) ==
  LET st == EdIngStem(w) IN
  IF EndsIn(w, <<"e","e","d">>)
  THEN (IF MeasureOf(DropLast(w, 3)) > 0 THEN DropLast(w, 1) ELSE w)
  ELSE IF EndsIn(st, <<"a","t">>) \/ EndsIn(st, <<"b","l">>) \/ EndsIn(st, <<"i","z">>)
  THEN Append(st, "e")
  ELSE IF EndsDoubled(st)
  THEN (IF LastOf(st) \in {"l", "s", "z"} THEN st ELSE DropLast(st, 1))
  ELSE IF MeasureOf(st) = 1 /\ EndsCvc(st) THEN Append(st, "e")
  ELSE st

\* C7: step 1b: a word ending in -ed or -ing (not -eed) whose stem has a
\* vowel loses the suffix, then -at/-bl/-iz get an e, else a doubled
\* consonant other than l, s, z loses one copy, else a stem of measure 1
\* with cvc(end) gets an e; a word ending in -eed loses its d when the stem
\* before -eed has measure > 0 and is unchanged otherwise.
C7_Step1bVerbEndings ==
  (pc = "step1b" /\ Step1bCovered(Current))
    => LET after == step1b(Self) IN
       /\ ~after.panicked
       /\ SubSeq(after.buffer, 1, after.k + 1) = Step1bClaimed(Current)

\* C8: for every lower-case ASCII-letter word, stem ends with the end index
\* and the word that the C reference's stem() ends with.
C8_SameAsCReference ==
  (calls > 0 /\ pc \in {Idle, PanickedPc} /\ word # << >> /\ IsLowerWord(word))
    => /\ pc = Idle
       /\ k = c_stem(word, 0, Len(word) - 1, 0).k
       /\ result = c_stemmed(word)

\* The order in which a call passes through its steps.
StepOrder ==
  << "step1a", "step1b", "step1b_tidy", "step1b_undouble", "step1c", "step2",
     "step3", "step4", "step5", "step5_l", "return" >>
Position(p) == CHOOSE i \in 1..Len(StepOrder) : StepOrder[i] = p

\* C9: every call of stem terminates by reaching its return: each step of a
\* call, with its scans and recursions run to their end, moves the call to
\* a later step or returns.
C9_EveryCallReturns ==
  [][InCall => \/ pc' = Idle
               \/ pc' \in StepPcs /\ Position(pc') > Position(pc)]_vars

\* Every step of a call ends the call (by its return or by a panic) or moves
\* it to a later step: no call runs on for ever.
CallAdvances ==
  [][InCall => \/ pc' \in {Idle, PanickedPc}
               \/ pc' \in StepPcs /\ Position(pc') > Position(pc)]_vars

\* C10: during a call on a word of length >= 3, start <= end <= length - 1
\* in every state, and no step leaves end greater than it was on entry to
\* the step.
C10_EndWithinWord ==
  /\ [](InCall => (ULe(k0, k) /\ ULe(k, Len(buffer) - 1)))
  /\ [][(InCall /\ pc' # PanickedPc) => ULe(entry', entry)]_vars


\* The indices of the buffer that hold the letter y.
YIndices == {i \in 0..(Len(buffer) - 1) : At(buffer, i) = "y"}

VCPairs(jj) ==
  Cardinality({i \in k0..(jj - 1) :
                 ~is_consonant(Self, i).val /\ is_consonant(Self, i + 1).val})

\* measure() with the boundary at jj.
MeasureAt(jj) == measure([Self EXCEPT !.j = jj])

\* The boundaries inside the word: start <= jj <= end.
Boundaries == {jj \in 0..(Len(buffer) - 1) : ULe(k0, jj) /\ ULe(jj, k)}

\* measure() counts the complete VC pairs of [start, jj] for every boundary
\* inside the word.
MeasureCountsPairs ==
  calls > 0 => \A jj \in Boundaries : MeasureAt(jj) = Value(VCPairs(jj))

\* The boundary is below start: a match of the whole word has left the
\* region before the suffix empty (j is k0 - 1, held in a usize).
EmptyRegion == j = k0 - 1

\* C12: for every buffer and every boundary j with start <= j <= end,
\* measure() is the number of complete VC pairs of [start, j]; for an empty
\* region (j < start) it returns 0.
C12_MeasureCountsVC ==
  /\ MeasureCountsPairs
  /\ (calls > 0 /\ EmptyRegion) => measure(Self) = Value(0)


\* C13: within a call of stem, every use of j (by measure, vowel_in_stem or
\* set_to, or by k = j) comes immediately after a successful ends_with, with
\* no other match attempt between the match and the use; the only other
\* source of j is step5's j = k.
C13_UseRightAfterMatch == calls > 0 => boundary.worst = "fresh"

\* C13, amended: within a call of stem, every use of j reads a value that a
\* successful ends_with, or step5's j = k, has set earlier in the same call;
\* no match attempt comes between the match and the use except in the last
\* rule of step 1b (measure() == 1 && cvc(k), set_to("e")), which uses the j
\* of the -ed / -ing match after the failed attempts for "at", "bl", "iz".
C13_UseAfterMatch ==
  /\ [](calls > 0 => boundary.worst # "none")
  /\ [][(boundary'.worst = "aged" /\ boundary.worst # "aged")
          => pc = "step1b_tidy"]_vars

C13_Witness ==
  /\ HasReturned
  /\ IsLowerWord(word)
  /\ boundary.worst = "aged"
  /\ LastOf(result) = "e"


\* C14: in every set_to call of the pipeline (steps 1a, 1b, 2 and 3) the
\* replacement is no longer than the suffix it replaces: the suffix matched
\* by the ends_with that set the j set_to writes after.
C14_ReplacementNoLonger == calls > 0 => boundary.excess = 0

\* C14, amended: in every set_to call of steps 1a, 2 and 3 the replacement
\* is no longer than the suffix matched by the ends_with that set j; in step
\* 1b the rules at -> ate, bl -> ble, iz -> ize write one character more
\* than the suffix they matched, and leave k no greater than it was on
\* entry to step 1.
C14_ReplacementOneLonger ==
  /\ [](boundary.excess <= 1)
  /\ [][boundary'.excess > boundary.excess
          => /\ calls' = calls
             /\ pc = "step1b_tidy"
             /\ pc' # PanickedPc => ULe(k', entry)]_vars

C14_Witness ==
  /\ HasReturned
  /\ IsLowerWord(word)
  /\ boundary.excess = 1
  /\ EndsIn(result, <<"i","z","e">>)


\* The first rule of a table, in table order, whose suffix the word ends in
\* (0 when there is none).
FirstMatch(w, rules) ==
  IF \E n \in 1..Len(rules) : EndsIn(w, rules[n][1])
  THEN CHOOSE n \in 1..Len(rules) :
         /\ EndsIn(w, rules[n][1])
         /\ \A m \in 1..(n - 1) : ~EndsIn(w, rules[m][1])
  ELSE 0

\* What the claim says step 2 makes of a word of two letters or more: the
\* first matching rule of the branch rewrites the word when the stem before
\* its suffix has measure > 0, and nothing else happens.
Step2Claimed(w) ==
  LET rules == Step2Rules(w[Len(w) - 1])
      n == FirstMatch(w, rules)
      st == DropLast(w, Len(rules[n][1]))
  IN  IF n = 0 THEN w
      ELSE IF MeasureOf(st) > 0 THEN st \o rules[n][2]
      ELSE w

\* Step 2 is about to run on a word whose first matching suffix is not the
\* whole word.
Step2OnProperSuffix ==
  /\ pc = "step2"
  /\ LET rules == Step2Rules(Current[Len(Current) - 1])
         n == FirstMatch(Current, rules)
     IN  n # 0 => Len(rules[n][1]) < Len(Current)

\* Step 2 does what the claim says on every word whose matching suffix is
\* not the whole word.
Step2FirstMatchOnProperSuffix ==
  Step2OnProperSuffix =>
    LET after == step2(Self) IN
    /\ ~after.panicked
    /\ SubSeq(after.buffer, 1, after.k + 1) = Step2Claimed(Current)

\* C15: step 2 applies at most one table entry per word: in the branch
\* chosen by the character before the last, the first suffix in table order
\* that matches decides, and when the stem before it has measure 0 the word
\* is left unchanged, no later alternative being tried.
C15_Step2FirstMatch ==
  pc = "step2" =>
    LET after == step2(Self) IN
    /\ ~after.panicked
    /\ SubSeq(after.buffer, 1, after.k + 1) = Step2Claimed(Current)


\* The suffixes step 4 tries, in order, for a character before the last.
Step4Suffixes(ch) ==
  CASE ch = "a" -> Step4_a
    [] ch = "c" -> Step4_c
    [] ch = "e" -> Step4_e
    [] ch = "i" -> Step4_i
    [] ch = "l" -> Step4_l
    [] ch = "n" -> Step4_n
    [] ch = "o" -> << <<"i","o","n">>, <<"o","u">> >>
    [] ch = "s" -> Step4_s
    [] ch = "t" -> Step4_t
    [] ch = "u" -> Step4_u
    [] ch = "v" -> Step4_v
    [] ch = "z" -> Step4_z
    [] OTHER -> << >>

\* The suffix the claim has step 4 recognize in a word of two letters or
\* more (empty when none): the first of the branch the word ends in, "ion"
\* counting only after s or t.
Recognized(w) ==
  LET list == Step4Suffixes(w[Len(w) - 1])
      Counts(x) ==
        /\ EndsIn(w, x)
        /\ x = <<"i","o","n">> =>
             (Len(w) > 3 /\ w[Len(w) - 3] \in {"s", "t"})
      hits == {n \in 1..Len(list) : Counts(list[n])}
  IN  IF hits = {} THEN << >>
      ELSE list[CHOOSE n \in hits : \A m \in hits : n <= m]

\* What the claim says step 4 makes of the word.
Step4Claimed(w) ==
  LET x == Recognized(w)
      st == DropLast(w, Len(x))
  IN  IF x # << >> /\ MeasureOf(st) > 1 THEN st ELSE w

\* Step 4 is about to run on a word that does not consist of one of the
\* suffixes of its branch.
Step4OnProperSuffix ==
  /\ pc = "step4"
  /\ LET list == Step4Suffixes(Current[Len(Current) - 1]) IN
     \A n \in 1..Len(list) : Current # list[n]

\* Step 4 does what the claim says on every such word.
Step4TruncatesOnProperSuffix ==
  Step4OnProperSuffix =>
    LET after == step4(Self) IN
    /\ ~after.panicked
    /\ after.buffer = buffer
    /\ SubSeq(after.buffer, 1, after.k + 1) = Step4Claimed(Current)

\* C16: step 4 changes the word only by truncating it to the boundary of a
\* recognized suffix, and does so exactly when the stem before the suffix
\* has measure > 1; a recognized suffix after a stem of measure <= 1 leaves
\* the word unchanged, no shorter alternative being tried; "ion" is
\* recognized only after s or t, and otherwise "ou" is tried.
C16_Step4Truncates ==
  pc = "step4" =>
    LET after == step4(Self) IN
    /\ ~after.panicked
    /\ after.buffer = buffer
    /\ SubSeq(after.buffer, 1, after.k + 1) = Step4Claimed(Current)

====
